---- MODULE Spec2Model ----
(***************************************************************************)
(* Sidekick: the worker / tools / evaluator control loop (sidekick.py),    *)
(* the round driver run_superstep, resource release (cleanup) and the UI   *)
(* event wiring of app.py.                                                 *)
(*                                                                         *)
(* Spec is the UI session: loads, resets, submissions and the rounds they  *)
(* run, with a session creation as one step that succeeds or fails.        *)
(* AssembleSpec is one session creation step by step (tools.py and         *)
(* Sidekick.setup), for every choice of the constructions that raise.      *)
(*                                                                         *)
(* A message content is a sequence of text fragments: an f-string is the   *)
(* concatenation of its literal parts and its interpolated values, so      *)
(* "the text contains F" is "F is one of the fragments".                   *)
(***************************************************************************)
EXTENDS Integers, Sequences, FiniteSets, TLC

(* ------------------------------ bounds --------------------------------- *)
\* What the user and the LLMs may do in one run: every submission, every reset
\* or clear_memory, every worker reply that requests tools and every rejecting
\* verdict takes one unit.
MaxEvents == 3

\* Graph steps one round can take while the LLMs stay within MaxEvents: worker
\* and evaluator, and two more per tool pass and per rejection.
MaxSteps == 2 * MaxEvents + 2
\* Sidekick objects ever constructed: one by ui.load, one per reset.
MaxSidekicks == MaxEvents + 1

(* ------------------------------ inputs --------------------------------- *)
\* The code copies the texts it is given (user messages, LLM replies, verdict
\* feedback) without looking into them, except for whether a text is empty.
\* So a text is named after where it comes from: the n-th event of the run,
\* or the n-th graph step of the round answering a message.
None == <<"None">>
Ticks(n) == [i \in 1..n |-> "'"]
\* what the user typed into the message textbox at the n-th event of the run
UserMessage(n) == <<"message">> \o Ticks(n)
\* the success_criteria textbox: left empty, or filled in
CriteriaInputs == {<<>>, <<"criteria">>}
\* the text of the worker LLM's reply at a step of the round answering message
ReplyText(message, step) == <<"reply to">> \o message \o <<"at">> \o Ticks(step)
\* the feedback of the evaluator LLM's verdict at a step of that round
FeedbackText(message, step) == <<"feedback on">> \o message \o <<"at">> \o Ticks(step)
\* tool_calls lists of a worker reply that requests tools (N = 1 and N = 2)
ToolCallLists == {<<"calculator">>, <<"search", "calculator">>}

ListenerOrder == <<"message.submit", "success_criteria.submit", "go_button.click">>
RoundListeners == {ListenerOrder[i] : i \in 1..Len(ListenerOrder)}
\* the listeners that construct a Sidekick
SetupListeners == {"ui.load", "reset_button.click", "clear_memory_button.click"}

(* --------------------------- message types ----------------------------- *)
SystemMessage(content) == [type |-> "system", content |-> content, tool_calls |-> <<>>]
HumanMessage(content) == [type |-> "human", content |-> content, tool_calls |-> <<>>]
AIMessage(content) == [type |-> "ai", content |-> content, tool_calls |-> <<>>]
AIToolCalls(calls) == [type |-> "ai", content |-> <<>>, tool_calls |-> calls]
ToolMessage(name, ok) ==
    [type |-> "tool", content |-> <<IF ok THEN "result" ELSE "Error", name>>, tool_calls |-> <<>>]

EvaluatorPrefix == "Evaluator Feedback on this answer: "
DefaultCriteria == <<"The answer should be clear and accurate">>

Last(s) == s[Len(s)]
Truthy(v) == v # None /\ v # <<>>

VARIABLES
    sk,        \* the Sidekick objects, by identity
    created,   \* how many Sidekick objects were constructed
    sidekick,  \* the gr.State value: 0 (None) or the identity of a Sidekick
    chatbot,   \* the gr.Chatbot value (visible history)
    file,      \* the content of MEMORY_FILE
    round,     \* per process_message listener: the run_superstep in flight
    setupEv,   \* per constructing listener: the setup in flight
    closed,    \* the UI session was deleted (delete_callback ran)
    events,    \* units of MaxEvents used so far
    asm        \* one session creation, step by step (tools.py, Sidekick.setup)

vars == <<sk, created, sidekick, chatbot, file, round, setupEv, closed, events, asm>>

(* ------------------------------ helpers -------------------------------- *)
\* x occurs in the text c (as a run of fragments; the empty text occurs in any text)
Contains(c, x) ==
    \E i \in 0..(Len(c) - Len(x)) : SubSeq(c, i + 1, i + Len(x)) = x

RECURSIVE Flatten(_)
Flatten(ss) == IF ss = <<>> THEN <<>> ELSE Head(ss) \o Flatten(Tail(ss))

\* add_messages reducer of State.messages. Every message merged here is new to
\* the left side (an LLM reply carries a fresh run id, every other message is
\* built without an id and is given a fresh one), so each one is appended.
add_messages(left, right) == left \o right

\* FileChatMessageHistory.messages: the (role, content) records of the file, as messages
chat_memory_messages(f) ==
    [i \in 1..Len(f) |-> [type |-> f[i].type, content |-> f[i].content, tool_calls |-> <<>>]]

\* closes and stops count the browser.close() and playwright.stop() calls issued
\* on the object's handles; released and raised record that cleanup was
\* called on it and that a call of cleanup raised to its caller.
BlankSidekick ==
    [ready |-> FALSE, browser |-> FALSE, playwright |-> FALSE, memory |-> <<>>,
     closes |-> 0, stops |-> 0, released |-> FALSE, raised |-> FALSE]

IdleRound ==
    [pc |-> "idle", sk |-> 0, message |-> <<>>, history |-> <<>>,
     messages |-> <<>>, success_criteria |-> <<>>, feedback_on_work |-> None,
     success_criteria_met |-> FALSE, user_input_needed |-> FALSE,
     worker_input |-> <<>>, last_response |-> None, evaluator_input |-> <<>>,
     trace |-> <<>>, rejected |-> 0, final_reply |-> None]

IdleSetup == [pc |-> "idle", new |-> 0]

\* Fields of a round beside the graph state: sk is the Sidekick running it,
\* message and history are run_superstep's arguments, worker_input and
\* evaluator_input are what the last LLM calls were given, last_response is
\* what the evaluator read as the reply to judge; trace (the nodes run so
\* far), rejected (the rejecting verdicts so far) and final_reply (the
\* worker's latest reply without tool calls) record what happened.

(* ------------------------------ Sidekick ------------------------------- *)
\* system_message with the feedback section left out
system_message_without_feedback(state) ==
    <<"You are a helpful assistant that can use tools to complete tasks.",
      "The current date and time is ", "NOW", "This is the success criteria:">>
    \o state.success_criteria
    \o <<"You should reply either with a question for the user, or with your final response.">>

\* Sidekick.worker, lines 74-95: the system instruction
system_message(state) ==
    <<"You are a helpful assistant that can use tools to complete tasks.",
      "The current date and time is ", "NOW", "This is the success criteria:">>
    \o state.success_criteria
    \o <<"You should reply either with a question for the user, or with your final response.">>
    \o (IF Truthy(state.feedback_on_work)
        THEN <<"Previously you thought you completed the assignment, but your reply was rejected.",
               "Here is the feedback on why this was rejected:">>
             \o state.feedback_on_work
             \o <<"With this feedback, please continue the assignment.">>
        ELSE <<>>)

\* Sidekick.worker, lines 98-103: every system message of the state gets the new content
replace_system(messages, content) ==
    [i \in 1..Len(messages) |->
        IF messages[i].type = "system" THEN SystemMessage(content) ELSE messages[i]]

found_system_message(messages) == \E i \in 1..Len(messages) : messages[i].type = "system"

\* worker_messages with the prepend of a missing system message left out
worker_messages_no_prepend(state) ==
    replace_system(state.messages, system_message(state))

\* Sidekick.worker, lines 98-109: the message list handed to the worker LLM
worker_messages(state) ==
    IF found_system_message(state.messages)
    THEN replace_system(state.messages, system_message(state))
    ELSE <<SystemMessage(system_message(state))>> \o state.messages

\* worker_router sending every reply to the evaluator
worker_router_always_evaluator(state) == "evaluator"

\* worker_router testing only that the last message has a tool_calls attribute
worker_router_hasattr_only(state) ==
    IF Last(state.messages).type = "ai" THEN "tools" ELSE "evaluator"

\* Sidekick.worker_router, lines 116-124
worker_router(state) ==
    IF Last(state.messages).tool_calls # <<>> THEN "tools" ELSE "evaluator"

\* Sidekick.format_conversation, lines 126-136
format_conversation(messages) ==
    <<"Conversation history:">>
    \o Flatten([i \in 1..Len(messages) |->
         IF messages[i].type = "human" THEN <<"User: ">> \o messages[i].content
         ELSE IF messages[i].type = "ai"
              THEN <<"Assistant: ">>
                   \o (IF messages[i].content # <<>> THEN messages[i].content
                       ELSE <<"[Tools use]">>)
              ELSE <<>>])

\* Sidekick.evaluator, lines 147-168: the prompt given to the evaluator LLM
evaluator_user_message(state) ==
    <<"You are evaluating a conversation between the User and Assistant.">>
    \o format_conversation(state.messages)
    \o <<"The success criteria for this assignment is:">> \o state.success_criteria
    \o <<"And the final response from the Assistant that you are evaluating is:">>
    \o Last(state.messages).content
    \o (IF Truthy(state.feedback_on_work)
        THEN <<"Also, note that in a prior attempt from the Assistant, you provided this feedback: ">>
             \o state.feedback_on_work
        ELSE <<>>)

\* Sidekick.evaluator, lines 177-181: the note appended to the messages
evaluator_note(eval_result) == AIMessage(<<EvaluatorPrefix>> \o eval_result.feedback)

\* route_based_on_evaluation ending the round only when both flags are set
route_requires_both_flags(state) ==
    IF state.success_criteria_met /\ state.user_input_needed THEN "END" ELSE "worker"

\* route_based_on_evaluation ignoring user_input_needed
route_ignores_user_input(state) ==
    IF state.success_criteria_met THEN "END" ELSE "worker"

\* Sidekick.route_based_on_evaluation, lines 188-194
route_based_on_evaluation(state) ==
    IF state.success_criteria_met \/ state.user_input_needed THEN "END" ELSE "worker"

\* safe_math_calculator catches every exception and returns a string; the other
\* tools may raise.
MayRaise(name) == name # "calculator"

\* tool_node losing the message of a call that raised
tool_node_raise_lost(state, ok) ==
    LET calls == Last(state.messages).tool_calls
        kept == SelectSeq([i \in 1..Len(calls) |-> i], LAMBDA i : ok[i])
    IN [k \in 1..Len(kept) |-> ToolMessage(calls[kept[k]], TRUE)]

\* ToolNode: one ToolMessage per tool call of the last message, in the order of
\* the calls; a call that raises yields an error message instead of a result.
tool_node(state, ok) ==
    [i \in 1..Len(Last(state.messages).tool_calls) |->
        ToolMessage(Last(state.messages).tool_calls[i], ok[i])]

\* Sidekick.run_superstep, lines 233-240
initial_state(persistent_messages, message, success_criteria) ==
    [messages |-> persistent_messages \o <<HumanMessage(message)>>,
     success_criteria |-> IF success_criteria # <<>> THEN success_criteria ELSE DefaultCriteria,
     feedback_on_work |-> None,
     success_criteria_met |-> FALSE,
     user_input_needed |-> FALSE]

\* assistant_reply_content taking the last message instead of the one before it
assistant_reply_content_last(result) == Last(result.messages).content

\* Sidekick.run_superstep, line 247
assistant_reply_content(result) == result.messages[Len(result.messages) - 1].content

\* visible_entries showing the raw feedback instead of the evaluator's note
visible_entries_raw_feedback(message, result) ==
    << [role |-> "user", content |-> message],
       [role |-> "assistant", content |-> result.messages[Len(result.messages) - 1].content],
       [role |-> "assistant", content |-> result.feedback_on_work] >>

\* Sidekick.run_superstep, lines 250-253
visible_entries(message, result) ==
    << [role |-> "user", content |-> message],
       [role |-> "assistant", content |-> assistant_reply_content(result)],
       [role |-> "assistant", content |-> Last(result.messages).content] >>

\* Sidekick.run_superstep, lines 244-248: add_user_message, add_ai_message
chat_memory_append(f, message, result) ==
    f \o << [type |-> "human", content |-> message],
            [type |-> "ai", content |-> assistant_reply_content(result)] >>

\* what may go wrong when the handles are released
ReleaseFailures == {"none", "close", "stop"}

\* Sidekick.cleanup, lines 255-268: close and stop are issued whenever the
\* handles are set; the handles are never cleared. With a running loop
\* (lines 260-263) both calls become tasks of the loop, and a failure of one
\* ends that task only. With no loop (lines 264-268, the handler of the
\* RuntimeError of get_running_loop) both are run to their end one after the
\* other, outside any try: a failure of close raises out of cleanup before
\* stop is issued, a failure of stop raises out of cleanup.
cleanup(o, loop, fail) ==
    IF ~o.browser THEN [o EXCEPT !.released = TRUE]
    ELSE IF loop
    THEN [o EXCEPT !.released = TRUE,
                   !.closes = @ + 1,
                   !.stops = IF o.playwright THEN @ + 1 ELSE @]
    ELSE IF fail = "close"
    THEN [o EXCEPT !.released = TRUE, !.closes = @ + 1, !.raised = TRUE]
    ELSE [o EXCEPT !.released = TRUE,
                   !.closes = @ + 1,
                   !.stops = IF o.playwright THEN @ + 1 ELSE @,
                   !.raised = @ \/ (o.playwright /\ fail = "stop")]

(* ------------------------------ tools.py ------------------------------- *)
\* An Optional[Tool] is a list of no tool (None) or one tool, so that
\* "if tool: tools.append(tool)" is tools \o tool.
\* the tools of FileManagementToolkit.get_tools() and of
\* PlayWrightBrowserToolkit.get_tools()
FileTools == <<"read_file", "write_file">>
BrowserTools == <<"navigate_browser", "extract_text">>

\* the constructions of tools.py that may raise, and those of Sidekick.setup
ToolPoints ==
    {"file", "search", "calculator", "wikipedia", "python_repl", "arxiv",
     "playwright.start", "chromium.launch", "toolkit"}
SetupPoints == {"worker_llm", "evaluator_llm", "build_graph"}
FailurePoints == ToolPoints \cup SetupPoints

\* create_file_tools, lines 53-62
create_file_tools(fails) == IF "file" \in fails THEN <<>> ELSE FileTools
\* create_search_tool, lines 28-39
create_search_tool(fails) == IF "search" \in fails THEN <<>> ELSE <<"search">>
\* create_math_tool, lines 42-50: the Tool is constructed outside any try
create_math_tool_raises(fails) == "calculator" \in fails
create_math_tool(fails) == <<"calculator">>
\* create_wikipedia_tool, lines 65-72
create_wikipedia_tool(fails) == IF "wikipedia" \in fails THEN <<>> ELSE <<"wikipedia">>
\* create_arxiv_tool, lines 75-81
create_arxiv_tool(fails) == IF "arxiv" \in fails THEN <<>> ELSE <<"arxiv">>
\* create_python_repl_tool, lines 84-90
create_python_repl_tool(fails) ==
    IF "python_repl" \in fails THEN <<>> ELSE <<"python_repl">>

\* get_tools, lines 107-147: the list, or the exception of create_math_tool
get_tools(fails) ==
    IF create_math_tool_raises(fails)
    THEN [raised |-> TRUE, tools |-> create_file_tools(fails) \o create_search_tool(fails)]
    ELSE [raised |-> FALSE,
          tools |-> create_file_tools(fails) \o create_search_tool(fails)
                    \o create_math_tool(fails) \o create_wikipedia_tool(fails)
                    \o create_python_repl_tool(fails) \o create_arxiv_tool(fails)]

\* One session creation: pc is the place in app.setup -> Sidekick.setup ->
\* get_all_tools_with_browser -> create_playwright_tools; fails is what raises
\* when it is reached; tools is the local list; drivers and browsers count the
\* processes started and not stopped; exc is an exception on its way to the
\* caller; self_* and the three below them are the fields of the Sidekick;
\* handed says the caller of app.setup received the Sidekick.
IdleAssemble ==
    [pc |-> "idle", fails |-> {}, tools |-> <<>>, drivers |-> 0, browsers |-> 0,
     exc |-> FALSE, self_tools |-> None, self_browser |-> FALSE,
     self_playwright |-> FALSE, worker_llm_with_tools |-> FALSE,
     evaluator_llm_with_output |-> FALSE, graph |-> FALSE, handed |-> FALSE]

\* get_all_tools_with_browser, lines 166-169, and Sidekick.setup, line 61
get_all_tools_with_browser(a, browser_tools, browser, playwright) ==
    [a EXCEPT !.pc = "worker_llm",
              !.tools = @ \o browser_tools,
              !.self_tools = a.tools \o browser_tools,
              !.self_browser = browser,
              !.self_playwright = playwright]

(* -------------------------------- Init --------------------------------- *)
Init ==
    /\ sk = [i \in 1..MaxSidekicks |-> BlankSidekick]
    /\ created = 0
    /\ sidekick = 0
    /\ chatbot = <<>>
    /\ file = <<>>
    /\ round = [l \in RoundListeners |-> IdleRound]
    /\ setupEv = [l \in SetupListeners |-> IdleSetup]
    /\ closed = FALSE
    /\ events = 0
    /\ asm = IdleAssemble

(* ------------------------------ app.py --------------------------------- *)
InFlight(r) == r.pc \in {"worker", "tools", "evaluator", "terminal"}

\* The three process_message listeners are wired alike (lines 82-96) and each
\* runs one event at a time; a submission is taken to use the first free one.
FirstFree(l) ==
    \E i \in 1..Len(ListenerOrder) :
        /\ ListenerOrder[i] = l
        /\ ~InFlight(round[l])
        /\ \A j \in 1..(i - 1) : InFlight(round[ListenerOrder[j]])

\* setup(), lines 10-11, from ui.load: the Sidekick is constructed and its setup awaited
Load ==
    /\ ~closed /\ created = 0 /\ setupEv["ui.load"].pc = "idle"
    /\ created' = 1
    /\ setupEv' = [setupEv EXCEPT !["ui.load"] = [pc |-> "setup", new |-> 1]]
    /\ UNCHANGED <<sk, sidekick, chatbot, file, round, closed, events, asm>>

\* reset(), lines 25-32, and clear_memory(), lines 38-43, up to the awaited setup:
\* the memory file is removed (clear_memory), the current Sidekick is released
\* (reset is a coroutine, so cleanup finds the running loop), and a new
\* Sidekick is constructed on the same MEMORY_FILE, which its chat_memory
\* creates empty when it is missing.
ResetBegin(l) ==
    /\ l \in {"reset_button.click", "clear_memory_button.click"}
    /\ ~closed /\ setupEv[l].pc = "idle"
    /\ events < MaxEvents /\ created < MaxSidekicks
    /\ events' = events + 1
    /\ created' = created + 1
    /\ file' = IF l = "clear_memory_button.click" THEN <<>> ELSE file
    /\ \E fail \in ReleaseFailures :
         sk' = IF sidekick # 0
               THEN [sk EXCEPT ![sidekick] = cleanup(@, TRUE, fail)] ELSE sk
    /\ setupEv' = [setupEv EXCEPT ![l] = [pc |-> "setup", new |-> created + 1]]
    /\ UNCHANGED <<sidekick, chatbot, round, closed, asm>>

\* Sidekick.setup returns: the tools are assembled (with or without the browser
\* group), the LLMs bound and the graph built; the event's outputs are stored.
SetupDone(l) ==
    /\ setupEv[l].pc = "setup"
    /\ \E withBrowser \in BOOLEAN :
         sk' = [sk EXCEPT ![setupEv[l].new] =
                   [@ EXCEPT !.ready = TRUE, !.browser = withBrowser,
                             !.playwright = withBrowser]]
    /\ sidekick' = setupEv[l].new
    /\ chatbot' = IF l = "ui.load" THEN chatbot ELSE <<>>
    /\ setupEv' = [setupEv EXCEPT ![l] = IdleSetup]
    /\ UNCHANGED <<created, file, round, closed, events, asm>>

\* Sidekick.setup raises after the tools were assembled (an LLM cannot be
\* constructed or bound): the event fails and its outputs are not stored.
SetupFail(l) ==
    /\ setupEv[l].pc = "setup"
    /\ \E withBrowser \in BOOLEAN :
         sk' = [sk EXCEPT ![setupEv[l].new] =
                   [@ EXCEPT !.browser = withBrowser, !.playwright = withBrowser]]
    /\ setupEv' = [setupEv EXCEPT ![l] = IdleSetup]
    /\ UNCHANGED <<created, sidekick, chatbot, file, round, closed, events, asm>>

\* free_resources(), lines 46-51, as the delete_callback of the session state,
\* which runs once the client is gone and its events have ended. It is a plain
\* function: whether a loop is running in the thread that calls it is up to
\* the caller. What Sidekick.free_resources raises is caught here and printed.
Unload ==
    /\ ~closed
    /\ \A l \in RoundListeners : ~InFlight(round[l])
    /\ \A l \in SetupListeners : setupEv[l].pc # "setup"
    /\ closed' = TRUE
    /\ \E loop \in BOOLEAN, fail \in ReleaseFailures :
         sk' = IF sidekick # 0
               THEN [sk EXCEPT ![sidekick] = cleanup(@, loop, fail)] ELSE sk
    /\ UNCHANGED <<created, sidekick, chatbot, file, round, setupEv, events, asm>>

\* process_message with no Sidekick in the session state: the call on None raises
SubmitNoSidekick(l) ==
    /\ ~closed /\ FirstFree(l) /\ events < MaxEvents
    /\ sidekick = 0
    /\ events' = events + 1
    /\ UNCHANGED <<sk, created, sidekick, chatbot, file, round, setupEv, closed, asm>>

\* Submit with add_user_message done before graph.ainvoke instead of after it
Submit_persists_user_first(l, success_criteria) ==
    /\ ~closed /\ FirstFree(l) /\ events < MaxEvents
    /\ sidekick # 0
    /\ events' = events + 1
    /\ LET state == initial_state(chat_memory_messages(file), UserMessage(events + 1), success_criteria)
           messages == add_messages(sk[sidekick].memory, state.messages)
       IN /\ round' = [round EXCEPT ![l] =
                 [IdleRound EXCEPT !.pc = "worker", !.sk = sidekick,
                                   !.message = UserMessage(events + 1), !.history = chatbot,
                                   !.messages = messages,
                                   !.success_criteria = state.success_criteria,
                                   !.feedback_on_work = state.feedback_on_work,
                                   !.success_criteria_met = state.success_criteria_met,
                                   !.user_input_needed = state.user_input_needed]]
          /\ sk' = [sk EXCEPT ![sidekick].memory = messages]
    /\ file' = file \o << [type |-> "human", content |-> UserMessage(events + 1)] >>
    /\ UNCHANGED <<created, sidekick, chatbot, setupEv, closed, asm>>

\* process_message -> run_superstep, lines 227-241, up to the first graph step:
\* the input is merged into the thread's checkpoint and the graph starts at worker
Submit(l, success_criteria) ==
    /\ ~closed /\ FirstFree(l) /\ events < MaxEvents
    /\ sidekick # 0
    /\ events' = events + 1
    /\ LET state == initial_state(chat_memory_messages(file), UserMessage(events + 1), success_criteria)
           messages == add_messages(sk[sidekick].memory, state.messages)
       IN /\ round' = [round EXCEPT ![l] =
                 [IdleRound EXCEPT !.pc = "worker", !.sk = sidekick,
                                   !.message = UserMessage(events + 1), !.history = chatbot,
                                   !.messages = messages,
                                   !.success_criteria = state.success_criteria,
                                   !.feedback_on_work = state.feedback_on_work,
                                   !.success_criteria_met = state.success_criteria_met,
                                   !.user_input_needed = state.user_input_needed]]
          /\ sk' = [sk EXCEPT ![sidekick].memory = messages]
    /\ UNCHANGED <<created, sidekick, chatbot, file, setupEv, closed, asm>>

(* --------------------------- the graph steps --------------------------- *)
\* the worker node returning feedback_on_work unset along with its reply
WorkerReply_resets_feedback(l, response) ==
    LET st == round[l]
        kept == IF found_system_message(st.messages)
                THEN replace_system(st.messages, system_message(st)) ELSE st.messages
        new == [st EXCEPT !.messages = add_messages(kept, <<response>>),
                          !.feedback_on_work = None]
    IN /\ round' = [round EXCEPT ![l] =
              [new EXCEPT !.pc = worker_router(new),
                          !.worker_input = worker_messages(st),
                          !.final_reply = IF response.tool_calls = <<>>
                                          THEN response.content ELSE @,
                          !.trace = Append(@, "worker")]]
       /\ sk' = [sk EXCEPT ![st.sk].memory = new.messages]

\* the worker node and its conditional edge, given the LLM's response
WorkerReply(l, response) ==
    LET st == round[l]
        kept == IF found_system_message(st.messages)
                THEN replace_system(st.messages, system_message(st)) ELSE st.messages
        new == [st EXCEPT !.messages = add_messages(kept, <<response>>)]
    IN /\ round' = [round EXCEPT ![l] =
              [new EXCEPT !.pc = worker_router(new),
                          !.worker_input = worker_messages(st),
                          !.final_reply = IF response.tool_calls = <<>>
                                          THEN response.content ELSE @,
                          !.trace = Append(@, "worker")]]
       /\ sk' = [sk EXCEPT ![st.sk].memory = new.messages]

\* an LLM invocation raises: graph.ainvoke, run_superstep and process_message raise
RoundFails(l) ==
    /\ round' = [round EXCEPT ![l] = IdleRound]
    /\ UNCHANGED sk

Worker(l) ==
    /\ round[l].pc = "worker" /\ Len(round[l].trace) < MaxSteps
    /\ \/ /\ WorkerReply(l, AIMessage(ReplyText(round[l].message, Len(round[l].trace))))
          /\ UNCHANGED events
       \/ /\ events < MaxEvents
          /\ \E calls \in ToolCallLists : WorkerReply(l, AIToolCalls(calls))
          /\ events' = events + 1
       \/ /\ RoundFails(l)
          /\ UNCHANGED events
    /\ UNCHANGED <<created, sidekick, chatbot, file, setupEv, closed, asm>>

\* the tools node and its edge back to worker
Tools(l) ==
    /\ round[l].pc = "tools" /\ Len(round[l].trace) < MaxSteps
    /\ LET st == round[l]
           calls == Last(st.messages).tool_calls
       IN \E ok \in [1..Len(calls) -> BOOLEAN] :
            /\ \A i \in 1..Len(calls) : MayRaise(calls[i]) \/ ok[i]
            /\ round' = [round EXCEPT
                   ![l].messages = add_messages(st.messages, tool_node(st, ok)),
                   ![l].pc = "worker",
                   ![l].trace = Append(@, "tools")]
            /\ sk' = [sk EXCEPT ![st.sk].memory =
                                   add_messages(st.messages, tool_node(st, ok))]
    /\ UNCHANGED <<created, sidekick, chatbot, file, setupEv, closed, events, asm>>

\* an EvaluatorOutput of the evaluator LLM
EvaluatorOutput(st, met, needed) ==
    [feedback |-> FeedbackText(st.message, Len(st.trace)),
     success_criteria_met |-> met, user_input_needed |-> needed]

\* the evaluator node and its conditional edge, given the LLM's verdict
EvaluatorReply(l, eval_result) ==
    LET st == round[l]
        new == [st EXCEPT !.messages = add_messages(@, <<evaluator_note(eval_result)>>),
                          !.feedback_on_work = eval_result.feedback,
                          !.success_criteria_met = eval_result.success_criteria_met,
                          !.user_input_needed = eval_result.user_input_needed]
    IN /\ round' = [round EXCEPT ![l] =
              [new EXCEPT !.pc = IF route_based_on_evaluation(new) = "END"
                                 THEN "terminal" ELSE "worker",
                          !.last_response = Last(st.messages).content,
                          !.evaluator_input = evaluator_user_message(st),
                          !.rejected = IF eval_result.success_criteria_met
                                          \/ eval_result.user_input_needed
                                       THEN @ ELSE @ + 1,
                          !.trace = Append(@, "evaluator")]]
       /\ sk' = [sk EXCEPT ![st.sk].memory = new.messages]

Evaluator(l) ==
    /\ round[l].pc = "evaluator" /\ Len(round[l].trace) < MaxSteps
    /\ \/ \E met, needed \in BOOLEAN :
            /\ met \/ needed
            /\ EvaluatorReply(l, EvaluatorOutput(round[l], met, needed))
            /\ UNCHANGED events
       \/ /\ events < MaxEvents
          /\ EvaluatorReply(l, EvaluatorOutput(round[l], FALSE, FALSE))
          /\ events' = events + 1
       \/ /\ RoundFails(l)
          /\ UNCHANGED events
    /\ UNCHANGED <<created, sidekick, chatbot, file, setupEv, closed, asm>>

\* Finish suspended between add_user_message and add_ai_message
Finish_suspended_between_appends(l) ==
    /\ round[l].pc = "terminal"
    /\ file' = file \o << [type |-> "human", content |-> round[l].message] >>
    /\ round' = [round EXCEPT ![l].pc = "add_ai_message"]
    /\ UNCHANGED <<sk, created, sidekick, chatbot, setupEv, closed, events, asm>>

\* run_superstep, lines 244-253, after graph.ainvoke returned, and
\* process_message's return: the event's outputs (chatbot, sidekick) are stored
Finish(l) ==
    /\ round[l].pc = "terminal"
    /\ LET st == round[l]
       IN /\ file' = chat_memory_append(file, st.message, st)
          /\ chatbot' = st.history \o visible_entries(st.message, st)
          /\ sidekick' = st.sk
    /\ round' = [round EXCEPT ![l] = IdleRound]
    /\ UNCHANGED <<sk, created, setupEv, closed, events, asm>>

Next ==
    \/ Load
    \/ \E l \in SetupListeners : ResetBegin(l)
    \/ \E l \in SetupListeners : SetupDone(l)
    \/ \E l \in SetupListeners : SetupFail(l)
    \/ Unload
    \/ \E l \in RoundListeners : SubmitNoSidekick(l)
    \/ \E l \in RoundListeners, c \in CriteriaInputs : Submit(l, c)
    \/ \E l \in RoundListeners : Worker(l)
    \/ \E l \in RoundListeners : Tools(l)
    \/ \E l \in RoundListeners : Evaluator(l)
    \/ \E l \in RoundListeners : Finish(l)

Spec == Init /\ [][Next]_vars

\* The LLM and tool calls return (a result or an error) and the event loop
\* resumes every coroutine whose await has completed.
FairSpec ==
    Spec /\ \A l \in RoundListeners :
              WF_vars(Worker(l)) /\ WF_vars(Tools(l)) /\ WF_vars(Evaluator(l))

(* --------------------------- session creation -------------------------- *)
session_vars == <<sk, created, sidekick, chatbot, file, round, setupEv, closed, events>>

\* app.setup, line 11: the Sidekick is constructed; what raises is an input
AssembleInit ==
    /\ sk = [i \in 1..MaxSidekicks |-> BlankSidekick]
    /\ created = 0
    /\ sidekick = 0
    /\ chatbot = <<>>
    /\ file = <<>>
    /\ round = [l \in RoundListeners |-> IdleRound]
    /\ setupEv = [l \in SetupListeners |-> IdleSetup]
    /\ closed = FALSE
    /\ events = 0
    /\ asm \in {[IdleAssemble EXCEPT !.pc = "get_tools", !.fails = f] :
                   f \in SUBSET FailurePoints}

\* get_all_tools_with_browser, line 163
GetTools ==
    /\ asm.pc = "get_tools"
    /\ asm' = IF get_tools(asm.fails).raised
              THEN [asm EXCEPT !.pc = "return", !.exc = TRUE,
                               !.tools = get_tools(asm.fails).tools]
              ELSE [asm EXCEPT !.pc = "start", !.tools = get_tools(asm.fails).tools]
    /\ UNCHANGED session_vars

\* create_playwright_tools, line 98 (and lines 102-104 when it raises)
PlaywrightStart ==
    /\ asm.pc = "start"
    /\ asm' = IF "playwright.start" \in asm.fails
              THEN get_all_tools_with_browser(asm, <<>>, FALSE, FALSE)
              ELSE [asm EXCEPT !.pc = "launch", !.drivers = @ + 1]
    /\ UNCHANGED session_vars

\* create_playwright_tools, line 99 (and lines 102-104 when it raises)
ChromiumLaunch ==
    /\ asm.pc = "launch"
    /\ asm' = IF "chromium.launch" \in asm.fails
              THEN get_all_tools_with_browser(asm, <<>>, FALSE, FALSE)
              ELSE [asm EXCEPT !.pc = "toolkit", !.browsers = @ + 1]
    /\ UNCHANGED session_vars

\* create_playwright_tools, lines 100-101 (and lines 102-104 when it raises)
BrowserToolkit ==
    /\ asm.pc = "toolkit"
    /\ asm' = IF "toolkit" \in asm.fails
              THEN get_all_tools_with_browser(asm, <<>>, FALSE, FALSE)
              ELSE get_all_tools_with_browser(asm, BrowserTools, TRUE, TRUE)
    /\ UNCHANGED session_vars

\* Sidekick.setup, lines 62-63
BindWorker ==
    /\ asm.pc = "worker_llm"
    /\ asm' = IF "worker_llm" \in asm.fails
              THEN [asm EXCEPT !.pc = "return", !.exc = TRUE]
              ELSE [asm EXCEPT !.pc = "evaluator_llm", !.worker_llm_with_tools = TRUE]
    /\ UNCHANGED session_vars

\* Sidekick.setup, lines 65-68
BindEvaluator ==
    /\ asm.pc = "evaluator_llm"
    /\ asm' = IF "evaluator_llm" \in asm.fails
              THEN [asm EXCEPT !.pc = "return", !.exc = TRUE]
              ELSE [asm EXCEPT !.pc = "build_graph", !.evaluator_llm_with_output = TRUE]
    /\ UNCHANGED session_vars

\* Sidekick.setup, line 69, and build_graph
BuildGraph ==
    /\ asm.pc = "build_graph"
    /\ asm' = IF "build_graph" \in asm.fails
              THEN [asm EXCEPT !.pc = "return", !.exc = TRUE]
              ELSE [asm EXCEPT !.pc = "return", !.graph = TRUE]
    /\ UNCHANGED session_vars

\* app.setup leaving the caller with the exception instead of raising it
AppSetup_returns_anyway ==
    /\ asm.pc = "return"
    /\ asm' = [asm EXCEPT !.pc = "returned", !.exc = FALSE, !.handed = TRUE]
    /\ UNCHANGED session_vars

\* app.setup, lines 12-13 (and reset, lines 32-33): the awaited setup raises,
\* or the Sidekick is returned
AppSetup ==
    /\ asm.pc = "return"
    /\ asm' = IF asm.exc
              THEN [asm EXCEPT !.pc = "raised"]
              ELSE [asm EXCEPT !.pc = "returned", !.handed = TRUE]
    /\ UNCHANGED session_vars

AssembleNext ==
    \/ GetTools
    \/ PlaywrightStart
    \/ ChromiumLaunch
    \/ BrowserToolkit
    \/ BindWorker
    \/ BindEvaluator
    \/ BuildGraph
    \/ AppSetup

AssembleSpec == AssembleInit /\ [][AssembleNext]_vars

(* ------------------------------- claims -------------------------------- *)
InLoop(l) == round[l].pc \in {"worker", "tools", "evaluator"}
\* a graph step of the round at l that did not fail
Stepped(l, node) ==
    /\ round[l].pc = node
    /\ round'[l].pc # "idle"
    /\ round'[l].trace = Append(round[l].trace, node)
Count(messages, type) == Cardinality({i \in 1..Len(messages) : messages[i].type = type})
LastNode(trace) == IF trace = <<>> THEN "START" ELSE Last(trace)
HasTools(trace) == \E i \in 1..Len(trace) : trace[i] = "tools"

NTools(trace) == Cardinality({i \in 1..Len(trace) : trace[i] = "tools"})
\* the next graph step of the round at l, with no LLM call failing
StepOK(l) == (Worker(l) \/ Tools(l) \/ Evaluator(l)) /\ round'[l].pc # "idle"

\* C1: a round in the loop can always take its next step, and after k worker
\* replies that request tools and r rejecting verdicts it has taken at most
\* 2(k + r) + 1 steps and is at terminal with the step after those: once the
\* worker replies without tool requests and the evaluator accepts or asks for
\* user input, the round is at terminal, after 2(k + r) + 2 steps.
C1_TerminalReachability ==
    \A l \in RoundListeners :
        LET steps == Len(round[l].trace)
            loops == NTools(round[l].trace) + round[l].rejected
        IN /\ InLoop(l) => (steps <= 2 * loops + 1 /\ ENABLED StepOK(l))
           /\ round[l].pc = "worker" => steps = 2 * loops
           /\ round[l].pc = "terminal" => steps = 2 * loops + 2

\* The same as a leads-to, under FairSpec: a round in the loop reaches terminal
\* unless an LLM call fails (which alone takes it from the loop to idle).
TerminalOrFailed ==
    \A l \in RoundListeners :
        InLoop(l) ~> (round[l].pc = "terminal" \/ round[l].pc = "idle")

\* a round that went through a tool pass and a rejection is at terminal
C1_Witness ==
    \E l \in RoundListeners :
        /\ round[l].pc = "terminal"
        /\ round[l].rejected >= 1
        /\ HasTools(round[l].trace)

\* C2: after an evaluator pass the round is back at worker exactly when both
\* flags of the verdict are false and at terminal otherwise; a round with a
\* flag set is never at worker, tools or evaluator again.
C2_EvaluatorRouting ==
    [][\A l \in RoundListeners :
        /\ Stepped(l, "evaluator") =>
             /\ round'[l].pc = "worker" <=>
                  (~round'[l].success_criteria_met /\ ~round'[l].user_input_needed)
             /\ round'[l].pc = "terminal" <=>
                  (round'[l].success_criteria_met \/ round'[l].user_input_needed)
        /\ (round[l].success_criteria_met \/ round[l].user_input_needed) =>
             /\ round[l].pc = "terminal"
             /\ round'[l].pc \in {"terminal", "idle"}]_vars

\* a round is back at worker after a rejecting verdict
C2_Witness ==
    \E l \in RoundListeners :
        /\ round[l].pc = "worker"
        /\ LastNode(round[l].trace) = "evaluator"
        /\ ~round[l].success_criteria_met /\ ~round[l].user_input_needed

\* C3: a round starts at worker; after a worker pass it is at tools iff the
\* reply just appended carries tool calls and at evaluator otherwise; after a
\* tools pass it is at worker; terminal is entered from evaluator only, so a
\* terminated round has a worker pass followed by an evaluator pass.
C3_Transitions ==
    [][\A l \in RoundListeners :
        /\ (round[l].pc = "idle" /\ round'[l].pc # "idle") =>
             (round'[l].pc = "worker" /\ round'[l].trace = <<>>)
        /\ Stepped(l, "worker") =>
             /\ Last(round'[l].messages).type = "ai"
             /\ round'[l].pc = "tools" <=> Last(round'[l].messages).tool_calls # <<>>
             /\ round'[l].pc = "evaluator" <=> Last(round'[l].messages).tool_calls = <<>>
        /\ Stepped(l, "tools") => round'[l].pc = "worker"
        /\ (round[l].pc # "terminal" /\ round'[l].pc = "terminal") =>
             round[l].pc = "evaluator"
        /\ round'[l].pc = "terminal" =>
             \E i, j \in 1..Len(round'[l].trace) :
                 /\ i < j
                 /\ round'[l].trace[i] = "worker"
                 /\ round'[l].trace[j] = "evaluator"]_vars

\* a round went worker, tools, worker, evaluator and is at terminal
C3_Witness ==
    \E l \in RoundListeners :
        /\ round[l].pc = "terminal"
        /\ round[l].trace = <<"worker", "tools", "worker", "evaluator">>

ToolName(m) == m.content[2]

\* C4: a tools pass after a reply with N >= 1 tool calls appends exactly N tool
\* messages, the i-th for the i-th call, whether or not the call raised, and
\* hands control to the worker.
C4_ToolRoundTrip ==
    [][\A l \in RoundListeners :
        (round[l].pc = "tools" /\ round'[l] # round[l]) =>
            LET old == round[l].messages
                new == round'[l].messages
                calls == Last(old).tool_calls
            IN /\ Len(calls) >= 1
               /\ Len(new) = Len(old) + Len(calls)
               /\ SubSeq(new, 1, Len(old)) = old
               /\ \A i \in 1..Len(calls) :
                     /\ new[Len(old) + i].type = "tool"
                     /\ ToolName(new[Len(old) + i]) = calls[i]
               /\ round'[l].pc = "worker"
               /\ round'[l].trace = Append(round[l].trace, "tools")]_vars

\* a tools pass for two calls, the first of which raised, is followed by worker
C4_Witness ==
    \E l \in RoundListeners :
        /\ round[l].pc = "worker"
        /\ LastNode(round[l].trace) = "tools"
        /\ Len(round[l].messages) >= 3
        /\ LET m == round[l].messages
               n == Len(m)
           IN /\ m[n - 2].tool_calls = <<"search", "calculator">>
              /\ m[n - 1].content = <<"Error", "search">>
              /\ m[n].content = <<"result", "calculator">>

\* C5 as stated: once a worker pass has run, the round's message sequence
\* holds exactly one system message.
C5_OneSystemTurnInState ==
    \A l \in RoundListeners :
        (InFlight(round[l]) /\ round[l].trace # <<>>) =>
            Count(round[l].messages, "system") = 1

\* C5, amended: the worker LLM is given exactly one system message, the first
\* of its input, holding the round's success criteria and the feedback of the
\* latest verdict; the round's message sequence holds no system message.
C5_OneSystemTurnInInput ==
    \A l \in RoundListeners :
        /\ Count(round[l].messages, "system") = 0
        /\ (InFlight(round[l]) /\ LastNode(round[l].trace) = "worker") =>
             /\ Count(round[l].worker_input, "system") = 1
             /\ Head(round[l].worker_input).type = "system"
             /\ Contains(Head(round[l].worker_input).content, round[l].success_criteria)
             /\ round[l].feedback_on_work # None =>
                  Contains(Head(round[l].worker_input).content, round[l].feedback_on_work)
             /\ Tail(round[l].worker_input) =
                  SubSeq(round[l].messages, 1, Len(round[l].messages) - 1)

\* the third worker pass of a round, after a tool pass and a rejection
C5_Witness ==
    \E l \in RoundListeners :
        /\ InFlight(round[l])
        /\ LastNode(round[l].trace) = "worker"
        /\ round[l].rejected >= 1
        /\ HasTools(round[l].trace)

Returned(l) == round[l].pc = "terminal" /\ round'[l].pc = "idle"
IsNote(content) == content # <<>> /\ Head(content) = EvaluatorPrefix

\* C6: when a round returns, the last two entries of the persisted store are
\* its user message and then the worker's final reply (its latest reply without
\* tool calls); no evaluator note is ever in the store.
C6_PersistedAppendOrder ==
    [][/\ \A l \in RoundListeners :
            Returned(l) =>
                /\ Len(file') >= 2
                /\ file'[Len(file') - 1] = [type |-> "human", content |-> round[l].message]
                /\ file'[Len(file')] = [type |-> "ai", content |-> round[l].final_reply]
                /\ round[l].final_reply # None
       /\ \A i \in 1..Len(file') : ~IsNote(file'[i].content)]_vars

\* a round has returned whose final reply was its third, given at its fifth
\* step (after a tool pass and a rejection), and that reply is the last entry
C6_Witness ==
    /\ \A l \in RoundListeners : round[l].pc = "idle"
    /\ Len(file) = 2
    /\ file[1] = [type |-> "human", content |-> UserMessage(1)]
    /\ file[2] = [type |-> "ai", content |-> ReplyText(UserMessage(1), 4)]

\* C7: a returning round hands back the visible history it was given, followed
\* by the user message, the worker's final reply and the note of the final
\* verdict: the prefix text followed by that verdict's feedback.
C7_VisibleHistory ==
    [][\A l \in RoundListeners :
            Returned(l) =>
                chatbot' = round[l].history
                    \o << [role |-> "user", content |-> round[l].message],
                          [role |-> "assistant", content |-> round[l].final_reply],
                          [role |-> "assistant",
                           content |-> <<EvaluatorPrefix>> \o round[l].feedback_on_work] >>]_vars

\* a second round has returned, extending the three entries of the first; its
\* final reply is its second, given after a rejection
C7_Witness ==
    /\ \A l \in RoundListeners : round[l].pc = "idle"
    /\ Len(chatbot) = 6
    /\ chatbot[4] = [role |-> "user", content |-> UserMessage(2)]
    /\ chatbot[5] = [role |-> "assistant", content |-> ReplyText(UserMessage(2), 2)]
    /\ IsNote(chatbot[6].content)

RejectionHeader == <<"Here is the feedback on why this was rejected:">>

\* C8: a rejecting verdict with feedback F sets feedback_on_work to F, and the
\* system instruction of the worker passes that follow in the round contains
\* F; the first worker pass of a round has no feedback and no rejection text.
C8_RejectionLoop ==
    [][\A l \in RoundListeners :
        /\ (Stepped(l, "evaluator") /\ round'[l].pc = "worker") =>
             /\ round'[l].feedback_on_work # None
             /\ Last(round'[l].messages).content
                  = <<EvaluatorPrefix>> \o round'[l].feedback_on_work
        /\ (Stepped(l, "worker") /\ round[l].rejected >= 1) =>
             /\ LastNode(round[l].trace) = "evaluator" =>
                  Last(round[l].messages).content
                    = <<EvaluatorPrefix>> \o round[l].feedback_on_work
             /\ Contains(Head(round'[l].worker_input).content,
                         RejectionHeader \o round[l].feedback_on_work)
        /\ (Stepped(l, "worker") /\ round[l].trace = <<>>) =>
             /\ round[l].feedback_on_work = None
             /\ ~Contains(Head(round'[l].worker_input).content, RejectionHeader)]_vars

\* the worker pass after a rejection has run, in a session's second round
C8_Witness ==
    \E l \in RoundListeners :
        /\ round[l].rejected >= 1
        /\ LastNode(round[l].trace) = "worker"
        /\ Len(file) >= 2
        /\ Contains(Head(round[l].worker_input).content,
                    RejectionHeader \o round[l].feedback_on_work)

\* C9: no two rounds of one Sidekick are in flight at the same time.
C9_RoundsSequential ==
    \A l1, l2 \in RoundListeners :
        (l1 # l2 /\ InFlight(round[l1]) /\ InFlight(round[l2])) =>
            round[l1].sk # round[l2].sk

\* C10: over any sequence of releases of one Sidekick, the browser close and
\* the driver stop are issued at most once, and never without the handle.
C10_ReleaseOnce ==
    \A i \in 1..MaxSidekicks :
        /\ sk[i].closes <= 1 /\ sk[i].stops <= 1
        /\ ~sk[i].browser => sk[i].closes = 0
        /\ ~sk[i].playwright => sk[i].stops = 0

\* C11: no call of release raises to its caller, whether or not a loop is
\* running and whatever fails while the handles are released.
C11_ReleaseNeverRaises ==
    \A i \in 1..MaxSidekicks : ~sk[i].raised

CandidateOrder ==
    <<"file", "search", "calculator", "wikipedia", "python_repl", "arxiv", "browser">>
BrowserPoints == {"playwright.start", "chromium.launch", "toolkit"}
\* the construction of a candidate succeeded
Built(c, fails) ==
    IF c = "browser" THEN BrowserPoints \cap fails = {} ELSE c \notin fails
ToolsOf(c) ==
    IF c = "file" THEN FileTools ELSE IF c = "browser" THEN BrowserTools ELSE <<c>>
\* every tool whose construction succeeded, in the order of the candidates
ExpectedTools(fails) ==
    Flatten([i \in 1..Len(CandidateOrder) |->
                IF Built(CandidateOrder[i], fails) THEN ToolsOf(CandidateOrder[i]) ELSE <<>>])
Ended == asm.pc \in {"returned", "raised"}

\* C12: when nothing but constructions of candidate tools fail, whichever they
\* are, the session creation succeeds, the session's tools are exactly the
\* tools whose construction succeeded, and the two handles are set iff the
\* browser group was built.
C12_ToolOmission ==
    (Ended /\ asm.fails \subseteq ToolPoints) =>
        /\ asm.pc = "returned" /\ asm.handed
        /\ asm.self_tools = ExpectedTools(asm.fails)
        /\ asm.self_browser = Built("browser", asm.fails)
        /\ asm.self_playwright = Built("browser", asm.fails)

\* The same for the candidates other than the calculator, which holds.
ToolOmissionGuarded ==
    (Ended /\ asm.fails \subseteq (ToolPoints \ {"calculator"})) =>
        /\ asm.pc = "returned" /\ asm.handed
        /\ asm.self_tools = ExpectedTools(asm.fails)
        /\ asm.self_browser = Built("browser", asm.fails)
        /\ asm.self_playwright = Built("browser", asm.fails)

\* an LLM invocation of the round at l fails in this step
Failed(l) == InLoop(l) /\ round'[l].pc = "idle"

\* C13: when an LLM invocation of a round fails, the event returns a visible
\* history: the one the round was given, followed by entries that tell the
\* user of the failure.
C13_FailureSurfaced ==
    [][\A l \in RoundListeners :
        Failed(l) =>
            /\ Len(chatbot') > Len(round[l].history)
            /\ SubSeq(chatbot', 1, Len(round[l].history)) = round[l].history]_vars

\* C14: the caller of a session creation receives a Sidekick only with its
\* tools assembled, worker and evaluator bound and graph built; a creation
\* that ended either handed over such a Sidekick or raised and handed over
\* nothing.
C14_AllOrNothing ==
    /\ asm.handed =>
         /\ asm.pc = "returned"
         /\ asm.self_tools # None
         /\ asm.worker_llm_with_tools
         /\ asm.evaluator_llm_with_output
         /\ asm.graph
    /\ Ended => (asm.handed <=> asm.pc # "raised")

\* a creation raised at build_graph: the Sidekick has its tools and both LLMs
\* but no graph, and was not handed over
C14_Witness ==
    /\ asm.pc = "raised"
    /\ asm.self_tools # None
    /\ asm.worker_llm_with_tools /\ asm.evaluator_llm_with_output
    /\ ~asm.graph /\ ~asm.handed

\* run_superstep starts the round at l in this step
Started(l) == round[l].pc = "idle" /\ round'[l].pc = "worker"

\* C15: every round enters its first worker pass with a message sequence that
\* is exactly the persisted history followed by the new user message, with
\* feedback_on_work unset and both flags false.
C15_FreshRoundState ==
    [][\A l \in RoundListeners :
        Started(l) =>
            /\ round'[l].messages
                 = chat_memory_messages(file) \o <<HumanMessage(round'[l].message)>>
            /\ round'[l].feedback_on_work = None
            /\ ~round'[l].success_criteria_met
            /\ ~round'[l].user_input_needed]_vars

\* The same for rounds that start while no other round is in flight, which
\* fails as well: the carry-over needs no overlap of rounds.
FreshRoundStateSequential ==
    [][\A l \in RoundListeners :
        (Started(l) /\ \A o \in RoundListeners : ~InFlight(round[o])) =>
            round'[l].messages
              = chat_memory_messages(file) \o <<HumanMessage(round'[l].message)>>]_vars

Judged(trace) == \E i \in 1..Len(trace) : trace[i] = "evaluator"

\* C16: until the first evaluator pass of a round has completed both flags are
\* false; a worker or tools step leaves the two flags, feedback_on_work and
\* success_criteria as they are; an evaluator step sets the flags and
\* feedback_on_work from its verdict; no step changes success_criteria.
C16_FlagsFrame ==
    /\ [](\A l \in RoundListeners :
            (InFlight(round[l]) /\ ~Judged(round[l].trace)) =>
                /\ ~round[l].success_criteria_met
                /\ ~round[l].user_input_needed
                /\ round[l].feedback_on_work = None)
    /\ [][\A l \in RoundListeners :
            /\ (Stepped(l, "worker") \/ Stepped(l, "tools")) =>
                 /\ round'[l].success_criteria_met = round[l].success_criteria_met
                 /\ round'[l].user_input_needed = round[l].user_input_needed
                 /\ round'[l].feedback_on_work = round[l].feedback_on_work
            /\ Stepped(l, "evaluator") =>
                 /\ round'[l].feedback_on_work
                      = FeedbackText(round[l].message, Len(round[l].trace))
                 /\ (round'[l].success_criteria_met \/ round'[l].user_input_needed)
                      <=> round'[l].pc = "terminal"
            /\ (InFlight(round[l]) /\ InFlight(round'[l])) =>
                 round'[l].success_criteria = round[l].success_criteria]_vars

\* a round is at tools after a rejection: the worker step that followed the
\* rejecting verdict kept its feedback and the flags
C16_Witness ==
    \E l \in RoundListeners :
        /\ round[l].pc = "tools"
        /\ round[l].rejected >= 1
        /\ round[l].feedback_on_work # None
        /\ round[l].success_criteria = <<"criteria">>

JudgedHeader == <<"And the final response from the Assistant that you are evaluating is:">>

\* C17: whenever a round is at the evaluator, the last message of its sequence
\* is the worker's latest reply, which has no tool calls and is neither a tool
\* message nor an evaluator note; the evaluator judges the content of that
\* message, and that content is what the round reports and persists as the
\* worker's final reply.
C17_EvaluatorJudgesReply ==
    /\ [](\A l \in RoundListeners :
            round[l].pc = "evaluator" =>
                /\ Last(round[l].messages).type = "ai"
                /\ Last(round[l].messages).tool_calls = <<>>
                /\ ~IsNote(Last(round[l].messages).content)
                /\ Last(round[l].messages).content
                     = ReplyText(round[l].message, Len(round[l].trace) - 1))
    /\ [][\A l \in RoundListeners :
            /\ Stepped(l, "evaluator") =>
                 /\ round'[l].last_response = Last(round[l].messages).content
                 /\ Contains(round'[l].evaluator_input,
                             JudgedHeader \o Last(round[l].messages).content)
            /\ Returned(l) =>
                 /\ Last(file') = [type |-> "ai", content |-> round[l].last_response]
                 /\ chatbot'[Len(chatbot') - 1]
                      = [role |-> "assistant", content |-> round[l].last_response]]_vars

\* a round is at the evaluator with a tool result right before the reply to judge
C17_Witness ==
    \E l \in RoundListeners :
        /\ round[l].pc = "evaluator"
        /\ Len(round[l].messages) >= 2
        /\ round[l].messages[Len(round[l].messages) - 1].type = "tool"

\* a Sidekick whose setup has completed and that was not released
Alive(i) == sk[i].ready /\ ~sk[i].released

\* C18: while two sessions are alive, a round that returns in one of them
\* leaves the persisted history that the other one loads as it was.
C18_StoreOwnedByOneSession ==
    [][\A l \in RoundListeners :
        \A i \in 1..MaxSidekicks :
            (Returned(l) /\ Alive(round[l].sk) /\ i # round[l].sk /\ Alive(i)) =>
                chat_memory_messages(file') = chat_memory_messages(file)]_vars

\* the text is a reply of the worker LLM in the round answering message
IsReplyTo(content, message) ==
    \E step \in 0..MaxSteps : content = ReplyText(message, step)

\* C19: as long as a round has not returned, the persisted store holds neither
\* its user message nor any of its replies; the step in which one of its LLM
\* invocations fails changes neither the store nor the visible history, nor
\* the session value of the UI.
C19_FailedRoundLeavesNoTrace ==
    /\ [](\A l \in RoundListeners :
            InFlight(round[l]) =>
                \A i \in 1..Len(file) :
                    /\ file[i].content # round[l].message
                    /\ ~IsReplyTo(file[i].content, round[l].message))
    /\ [][\A l \in RoundListeners :
            Failed(l) =>
                /\ file' = file
                /\ chatbot' = chatbot
                /\ sidekick' = sidekick]_vars

\* a round failed at the worker pass that followed a rejection and a tool
\* pass: its checkpoint ends with the tool results, and nothing was persisted
C19_Witness ==
    /\ \A l \in RoundListeners : round[l].pc = "idle"
    /\ file = <<>> /\ chatbot = <<>>
    /\ \E i \in 1..MaxSidekicks :
         /\ sk[i].memory # <<>>
         /\ Last(sk[i].memory).type = "tool"
         /\ \E k \in 1..Len(sk[i].memory) : IsNote(sk[i].memory[k].content)

\* C20: the persisted store is a sequence of pairs, a user entry directly
\* followed by an assistant entry that is a reply of the round answering that
\* user message; a returning round appends exactly its pair, whatever other
\* rounds are in flight.
C20_AdjacentAppends ==
    /\ [](/\ Len(file) % 2 = 0
          /\ \A i \in 1..Len(file) :
               i % 2 = 1 =>
                   /\ file[i].type = "human"
                   /\ file[i + 1].type = "ai"
                   /\ IsReplyTo(file[i + 1].content, file[i].content))
    /\ [][\A l \in RoundListeners :
            Returned(l) =>
                file' = file \o << [type |-> "human", content |-> round[l].message],
                                   [type |-> "ai", content |-> round[l].final_reply] >>]_vars

\* two rounds overlapped and both returned, the one submitted second first
C20_Witness ==
    /\ Len(file) = 4
    /\ file[1].content = UserMessage(2)
    /\ file[3].content = UserMessage(1)

\* get_all_tools_with_browser has returned (or raised)
Assembled == asm.pc \notin {"idle", "get_tools", "start", "launch", "toolkit"}

\* C21: once assemble has returned, every driver process it started and that
\* is still running is held by the session as its driver handle, together
\* with the browser handle; no driver runs without such an owner.
C21_NoDriverLeak ==
    Assembled =>
        /\ asm.drivers <= 1
        /\ asm.drivers = 1 => (asm.self_playwright /\ asm.self_browser)
        /\ asm.browsers = 1 => asm.self_browser

\* The release part of C21, under Spec: a released Sidekick that holds a
\* driver handle had its stop issued. It fails as well, by the raise of C11.
ReleaseStopsHeldDriver ==
    \A i \in 1..MaxSidekicks :
        (sk[i].released /\ sk[i].playwright) => sk[i].stops >= 1

====
